---- MODULE Spec2Model ----
(***************************************************************************)
(* The controller-driven grab/release protocol of src/src/index.ts (class  *)
(* Game): the frame loop polls the squeeze components of the left and the  *)
(* right controller and the right-hand squeeze handler attaches the first  *)
(* intersecting grabbable mesh to the right grip, or detaches it.          *)
(***************************************************************************)
EXTENDS Integers, Sequences, FiniteSets, TLC

\* Number of meshes the world task loads (worldTask.loadedMeshes.length).
NumMeshes == 2

\* Number of grabs, over all meshes, after which no mesh is found on a grip any more.
MaxGrabs == 2

\* this.rightGrabbedObject = null: no mesh (the meshes are numbered from 1).
Null == 0

\* this.leftController = null, setParent(null): no source, no parent node.
NoSource == "null"
NoParent == "null"
Undefined == "undefined"

\* The input sources the XR session can announce, named by the end of their
\* uniqueId (controller-<n>-<targetRayMode>-<handedness>).
Sources == {"0-tracked-pointer-left", "1-tracked-pointer-right", "2-gaze-none",
            "3-tracked-pointer-right"}

\* inputSource.uniqueId.endsWith("left")
EndsWithLeft(s) == s \in {"0-tracked-pointer-left"}

\* WebXRInputSource.grip exists only for a source with a grip space; the grip
\* mesh of a source is named by the source.
Grip(s) == IF s \in Sources \ {"2-gaze-none"} THEN s ELSE Undefined

Hands == {"left", "right"}

Meshes == 1..NumMeshes

TableName == "rpgpp_lt_table_01"
MeshNames == {TableName, "mesh"}
PropsNode == "Props"
SceneNodes == {PropsNode, "__root__"}

\* A mesh as the glTF loader hands it over: no physics impostor yet.
LoadedMesh == [name : MeshNames, parent : SceneNodes, physicsImpostor : {"none"}]

\* motionController?.getComponent(...) when the controller or its motion
\* controller is missing: the handlers get undefined.
NoComponent == [available |-> FALSE, pressed |-> FALSE, changed |-> FALSE]

\* A new WebXRControllerComponent: not pressed, no changes.
NewComponent == [available |-> TRUE, pressed |-> FALSE, changed |-> FALSE]

VARIABLES
    leftController,      \* Game.leftController: a source or NoSource
    rightController,     \* Game.rightController: a source or NoSource
    rightGrabbedObject,  \* Game.rightGrabbedObject: a mesh or Null
    grabbableObjects,    \* Game.grabbableObjects: sequence of meshes
    meshes,              \* worldTask.loadedMeshes: name, parent, physicsImpostor of each
    loaded,              \* assetsManager.onFinish has run
    added,               \* the sources onControllerAddedObservable has announced
    squeeze,             \* per hand: the controller's "xr-standard-squeeze" component
    intersecting,        \* the <<grip, mesh>> pairs that intersect in this frame
    pc,                  \* position of the render loop
    before,              \* rightGrabbedObject and meshes as this frame's update() found them
    effects,             \* the scene operations the handlers did in this frame, in order
    calls,               \* the handlers update() has called in this frame, in order
    actors,              \* the handlers called in this frame that changed what they found
    updated,             \* Game.update has run at least once
    edgeSeen,            \* a squeeze handler has seen a press or release edge
    suspends,            \* per mesh: the sleep() calls of the squeeze handlers so far
    resumes              \* per mesh: the wakeUp() calls of the squeeze handlers so far

vars == <<leftController, rightController, rightGrabbedObject, grabbableObjects,
          meshes, loaded, added, squeeze, intersecting, pc, before, effects, calls, actors,
          updated, edgeSeen, suspends, resumes>>

\* What has happened so far; only update() adds to it.
history == <<updated, edgeSeen, suspends, resumes>>

NoSnapshot == [rightGrabbedObject |-> Null, meshes |-> <<>>]

Range(s) == {s[i] : i \in DOMAIN s}

----------------------------------------------------------------------------
\* Game.constructor, then Game.start up to the registration of the render loop.
Init ==
    /\ leftController = NoSource
    /\ rightController = NoSource
    /\ rightGrabbedObject = Null
    /\ grabbableObjects = <<>>
    /\ meshes \in [Meshes -> LoadedMesh]
    /\ loaded = FALSE
    /\ added = {}
    /\ squeeze = [h \in Hands |-> NoComponent]
    /\ intersecting = {}
    /\ pc = "idle"
    /\ before = NoSnapshot
    /\ effects = <<>>
    /\ calls = <<>>
    /\ actors = {}
    /\ updated = FALSE
    /\ edgeSeen = FALSE
    /\ suspends = [m \in Meshes |-> 0]
    /\ resumes = [m \in Meshes |-> 0]

----------------------------------------------------------------------------
\* Events between frames.

\* xrHelper.input.onControllerAddedObservable callback.  The motion controller
\* of a new input source is initialised later, so its components are missing.
ControllerAdded(s) ==
    /\ pc = "idle"
    /\ s \notin added
    /\ added' = added \cup {s}
    /\ IF EndsWithLeft(s)
         THEN /\ leftController' = s
              /\ squeeze' = [squeeze EXCEPT !["left"] = NoComponent]
              /\ UNCHANGED rightController
         ELSE /\ rightController' = s
              /\ squeeze' = [squeeze EXCEPT !["right"] = NoComponent]
              /\ UNCHANGED leftController
    /\ UNCHANGED <<rightGrabbedObject, grabbableObjects, meshes, loaded,
                   intersecting, pc, before, effects, calls, actors, history>>

Controller(h) == IF h = "left" THEN leftController ELSE rightController

\* The motion controller of hand h's controller becomes available:
\* controller?.motionController?.getComponent("xr-standard-squeeze") is a component.
MotionControllerInit(h) ==
    /\ pc = "idle"
    /\ Controller(h) # NoSource
    /\ ~squeeze[h].available
    /\ squeeze' = [squeeze EXCEPT ![h] = NewComponent]
    /\ UNCHANGED <<leftController, rightController, rightGrabbedObject, grabbableObjects,
                   meshes, loaded, added, intersecting, pc, before, effects, calls, actors, history>>

\* The forEach body without line 183: the new impostor of a prop is left awake.
FinishedAwake(m) ==
    IF m.name = TableName THEN [m EXCEPT !.parent = NoParent, !.physicsImpostor = "awake"]
    ELSE IF m.parent = PropsNode THEN [m EXCEPT !.parent = NoParent, !.physicsImpostor = "awake"]
    ELSE m

\* The forEach body of assetsManager.onFinish for one mesh.
IsTable(m) == m.name = TableName
IsProp(m) == ~IsTable(m) /\ m.parent = PropsNode
Finished(m) ==
    IF IsTable(m) THEN [m EXCEPT !.parent = NoParent, !.physicsImpostor = "awake"]
    ELSE IF IsProp(m) THEN [m EXCEPT !.parent = NoParent, !.physicsImpostor = "asleep"]
    ELSE m

\* onFinish running again after it has run: the props are pushed once more.
AssetsFinishAgain ==
    /\ pc = "idle"
    /\ Len(grabbableObjects) <= NumMeshes
    /\ loaded' = TRUE
    /\ grabbableObjects' = grabbableObjects \o
           SelectSeq([i \in Meshes |-> i], LAMBDA i : meshes[i].name # TableName)
    /\ UNCHANGED <<leftController, rightController, rightGrabbedObject, meshes, added, squeeze,
                   intersecting, pc, before, effects, calls, actors, history>>

\* assetsManager.onFinish: runs once, when the world task has loaded.
AssetsFinish ==
    /\ pc = "idle"
    /\ ~loaded
    /\ loaded' = TRUE
    /\ grabbableObjects' = grabbableObjects \o
           SelectSeq([i \in Meshes |-> i], LAMBDA i : IsProp(meshes[i]))
    /\ meshes' = [i \in Meshes |-> Finished(meshes[i])]
    /\ UNCHANGED <<leftController, rightController, rightGrabbedObject, added, squeeze,
                   intersecting, pc, before, effects, calls, actors, history>>

----------------------------------------------------------------------------
\* The engine's input poll at the start of an XR frame: every available
\* component takes the button's level and records whether it changed; the
\* grips and meshes are where the frame finds them.
Polled(c, level) ==
    IF c.available THEN [available |-> TRUE, pressed |-> level, changed |-> (level # c.pressed)]
    ELSE c

RECURSIVE Sum(_, _)
Sum(f, S) == IF S = {} THEN 0 ELSE LET x == CHOOSE y \in S : TRUE IN f[x] + Sum(f, S \ {x})

\* The meshes a frame can find on a grip: the registry's, while fewer than
\* MaxGrabs grabs have happened.
Reachable == IF Sum(suspends, Meshes) < MaxGrabs THEN Range(grabbableObjects) ELSE {}

GripsPresent == {Grip(Controller(h)) : h \in {x \in Hands : Controller(x) # NoSource}} \ {Undefined}

XRFrame ==
    /\ pc = "idle"
    /\ \E l, r \in BOOLEAN :
         squeeze' = [h \in Hands |-> Polled(squeeze[h], IF h = "left" THEN l ELSE r)]
    /\ intersecting' \in SUBSET (GripsPresent \X Reachable)
    /\ before' = [rightGrabbedObject |-> rightGrabbedObject, meshes |-> meshes]
    /\ effects' = <<>>
    /\ calls' = <<>>
    /\ actors' = {}
    /\ pc' = "update"
    /\ UNCHANGED <<leftController, rightController, rightGrabbedObject, grabbableObjects,
                   meshes, loaded, added, history>>

----------------------------------------------------------------------------
\* The handlers, as functions of the part of the game they can change:
\* g = [rightGrabbedObject, meshes, effects, calls, actors, found, thrown];
\* found is what the handler running now found when it was called.

Found(g) == [rightGrabbedObject |-> g.rightGrabbedObject, meshes |-> g.meshes]

\* The handlers that have changed what they found, the one running now included.
Actors(g) ==
    IF g.calls # <<>> /\ Found(g) # g.found
      THEN g.actors \cup {g.calls[Len(g.calls)]}
      ELSE g.actors

\* Entry of a handler: its name and what it finds are noted.
Called(g, handler) ==
    [g EXCEPT !.calls = Append(@, handler), !.actors = Actors(g), !.found = Found(g)]

Effect(op, m, arg) == [op |-> op, mesh |-> m, arg |-> arg]

\* Level-triggered instead of edge-triggered: the changes flag is not looked at.
ChangesPressedLevel(component) == component.available

\* component?.changes.pressed
ChangesPressed(component) == component.available /\ component.changed

\* component?.pressed
IsPressed(component) == component.available /\ component.pressed

\* The handlers that only log.  Their component selects the message and
\* nothing else; Logger.Log is not part of the state.
onLeftTrigger(g) == Called(g, "onLeftTrigger")
onLeftThumbstick(g) == Called(g, "onLeftThumbstick")
onLeftX(g) == Called(g, "onLeftX")
onLeftY(g) == Called(g, "onLeftY")
onRightTrigger(g) == Called(g, "onRightTrigger")
onRightThumbstick(g) == Called(g, "onRightThumbstick")
onRightA(g) == Called(g, "onRightA")
onRightB(g) == Called(g, "onRightB")

\* grip.intersectsMesh(mesh, true) answering true for every mesh.
IntersectsAlways(grip, m) == TRUE

\* grip.intersectsMesh(mesh, true)
IntersectsMesh(grip, m) == <<grip, m>> \in intersecting

\* Attach without line 323: the impostor is not put to sleep.
AttachWithoutSleep(g, m, grip) ==
    [g EXCEPT !.rightGrabbedObject = m,
              !.meshes[m].parent = grip,
              !.effects = @ \o <<Effect("setParent", m, grip)>>]

\* Lines 322-324: take the mesh, put its impostor to sleep, parent it to the grip.
Attach(g, m, grip) ==
    [g EXCEPT !.rightGrabbedObject = m,
              !.meshes[m].physicsImpostor = "asleep",
              !.meshes[m].parent = grip,
              !.effects = @ \o <<Effect("sleep", m, ""), Effect("setParent", m, grip)>>]

\* Detach without line 336: the reference to the mesh is kept.
DetachKeepsReference(g) ==
    LET m == g.rightGrabbedObject IN
    [g EXCEPT !.meshes[m].parent = NoParent,
              !.meshes[m].physicsImpostor = "awake",
              !.effects = @ \o <<Effect("setParent", m, NoParent), Effect("wakeUp", m, "")>>]

\* Lines 334-336: unparent the mesh, wake its impostor, forget it.
Detach(g) ==
    LET m == g.rightGrabbedObject IN
    [g EXCEPT !.meshes[m].parent = NoParent,
              !.meshes[m].physicsImpostor = "awake",
              !.rightGrabbedObject = Null,
              !.effects = @ \o <<Effect("setParent", m, NoParent), Effect("wakeUp", m, "")>>]

\* The loop condition without its !this.rightGrabbedObject part.
ScanConditionUnguarded(g, i) == i <= Len(grabbableObjects)

\* The loop condition of line 318 (i counts from 1 here).
ScanCondition(g, i) == i <= Len(grabbableObjects) /\ g.rightGrabbedObject = Null

\* The registry read from its end.
ObjectAtReversed(i) == grabbableObjects[Len(grabbableObjects) + 1 - i]

\* this.grabbableObjects[i]
ObjectAt(i) == grabbableObjects[i]

\* The for loop of lines 318-326 from index i on.  this.rightController!.grip!
\* is undefined for a controller without grip: calling intersectsMesh on it
\* throws a TypeError out of the handler.
RECURSIVE Scan(_, _, _)
Scan(g, grip, i) ==
    IF ~ScanCondition(g, i) THEN g
    ELSE IF grip = Undefined THEN [g EXCEPT !.thrown = TRUE]
    ELSE IF IntersectsMesh(grip, ObjectAt(i)) THEN Scan(Attach(g, ObjectAt(i), grip), grip, i + 1)
    ELSE Scan(g, grip, i + 1)

\* Lines 334-335 in the other order and without the unparenting.
ReleaseKeepsParent(g) ==
    IF g.rightGrabbedObject # Null
      THEN LET m == g.rightGrabbedObject IN
           [g EXCEPT !.meshes[m].physicsImpostor = "awake",
                     !.rightGrabbedObject = Null,
                     !.effects = Append(@, Effect("wakeUp", m, ""))]
      ELSE g

\* Release without the test of line 332, waking the registry's meshes instead.
ReleaseUnguarded(g) ==
    [g EXCEPT !.meshes = [m \in Meshes |->
                            IF m \in Range(grabbableObjects)
                              THEN [g.meshes[m] EXCEPT !.parent = NoParent,
                                                       !.physicsImpostor = "awake"]
                              ELSE g.meshes[m]],
              !.rightGrabbedObject = Null,
              !.effects = @ \o [i \in 1..Len(grabbableObjects) |->
                                  Effect("wakeUp", grabbableObjects[i], "")]]

\* Lines 332-337.
Release(g) == IF g.rightGrabbedObject # Null THEN Detach(g) ELSE g

\* The right-hand code copied to the left hand (the README's exercise) with no
\* look at who holds the mesh: the first intersecting mesh goes to the left grip.
onLeftSqueezeGrabs(g, component) ==
    LET h == Called(g, "onLeftSqueeze")
        hit == {i \in 1..Len(grabbableObjects) :
                  IntersectsMesh(Grip(leftController), grabbableObjects[i])}
    IN  IF ChangesPressed(component) /\ IsPressed(component) /\ hit # {}
          THEN LET m == grabbableObjects[CHOOSE i \in hit : \A j \in hit : i <= j] IN
               [h EXCEPT !.meshes[m].physicsImpostor = "asleep",
                         !.meshes[m].parent = Grip(leftController),
                         !.effects = @ \o <<Effect("sleep", m, ""),
                                            Effect("setParent", m, Grip(leftController))>>]
          ELSE h

\* A left squeeze that lets go of what the right hand holds on its release edge.
onLeftSqueezeReleases(g, component) ==
    LET h == Called(g, "onLeftSqueeze") IN
    IF ChangesPressed(component) /\ ~IsPressed(component) THEN Release(h) ELSE h

\* Lines 230-243: logs the edge, nothing else.
onLeftSqueeze(g, component) == Called(g, "onLeftSqueeze")

onRightSqueeze(g, component) ==
    LET h == Called(g, "onRightSqueeze") IN
    IF ChangesPressed(component)
      THEN IF IsPressed(component)
             THEN Scan(h, Grip(rightController), 1)
             ELSE Release(h)
      ELSE h

\* The two hands' handlers in the other order.
processControllerInputRightFirst(g) ==
    LET g1 == onRightTrigger(g)
        g2 == onRightSqueeze(g1, squeeze["right"])
    IN  IF g2.thrown THEN g2
        ELSE onLeftY(onLeftX(onLeftThumbstick(onLeftSqueeze(onLeftTrigger(
                 onRightB(onRightA(onRightThumbstick(g2)))), squeeze["left"]))))

\* Game.processControllerInput: the left handlers, then the right handlers;
\* an exception leaves the function at once.
processControllerInput(g) ==
    LET g1 == onLeftTrigger(g)
        g2 == onLeftSqueeze(g1, squeeze["left"])
        g3 == onLeftThumbstick(g2)
        g4 == onLeftX(g3)
        g5 == onLeftY(g4)
        g6 == onRightTrigger(g5)
        g7 == onRightSqueeze(g6, squeeze["right"])
    IN  IF g7.thrown THEN g7 ELSE onRightB(onRightA(onRightThumbstick(g7)))

\* The per-mesh counts f with every effect op of the sequence es counted in.
RECURSIVE Counted(_, _, _)
Counted(f, es, op) ==
    IF es = <<>> THEN f
    ELSE Counted(IF Head(es).op = op THEN [f EXCEPT ![Head(es).mesh] = @ + 1] ELSE f,
                 Tail(es), op)

\* Game.update, called by the render loop before scene.render().
update ==
    /\ pc = "update"
    /\ LET g == processControllerInput([rightGrabbedObject |-> rightGrabbedObject,
                                        meshes |-> meshes, effects |-> effects,
                                        calls |-> calls, actors |-> actors,
                                        found |-> NoSnapshot, thrown |-> FALSE])
       IN  /\ rightGrabbedObject' = g.rightGrabbedObject
           /\ meshes' = g.meshes
           /\ effects' = g.effects
           /\ calls' = g.calls
           /\ actors' = Actors(g)
           /\ pc' = IF g.thrown THEN "aborted" ELSE "render"
           /\ suspends' = Counted(suspends, g.effects, "sleep")
           /\ resumes' = Counted(resumes, g.effects, "wakeUp")
    /\ updated' = TRUE
    /\ edgeSeen' = (edgeSeen \/ ChangesPressed(squeeze["left"]) \/ ChangesPressed(squeeze["right"]))
    /\ UNCHANGED <<leftController, rightController, grabbableObjects, loaded, added,
                   squeeze, intersecting, before>>

\* What a frame leaves behind for the next one: nothing of its own.
EndFrame ==
    /\ pc' = "idle"
    /\ intersecting' = {}
    /\ before' = NoSnapshot
    /\ effects' = <<>>
    /\ calls' = <<>>
    /\ actors' = {}
    /\ UNCHANGED <<leftController, rightController, rightGrabbedObject, grabbableObjects,
                   meshes, loaded, added, squeeze, history>>

\* this.scene.render(), the second statement of the render loop.
render == pc = "render" /\ EndFrame

\* update() threw: the exception leaves the render loop callback, scene.render()
\* is skipped for this frame.
renderSkipped == pc = "aborted" /\ EndFrame

Next ==
    \/ \E s \in Sources : ControllerAdded(s)
    \/ \E h \in Hands : MotionControllerInit(h)
    \/ AssetsFinish
    \/ XRFrame
    \/ update
    \/ render
    \/ renderSkipped

Spec == Init /\ [][Next]_vars

\* The state after construction when world.glb holds props only.
InitProps == Init /\ \A m \in Meshes : IsProp(meshes[m])

\* engine.runRenderLoop: while the loop is registered the engine keeps
\* running frames, and a frame that has begun runs update and then, unless
\* update threw, scene.render.  update returns: a frame is not inside it
\* for ever, which is weak fairness of update, whose steps are the only ones
\* that leave pc = "update".  Nothing obliges an event to arrive or the
\* player to move a button.  The world loaded is one of props only.
FairSpec ==
    /\ InitProps
    /\ [][Next]_vars
    /\ WF_vars(XRFrame) /\ WF_vars(render) /\ WF_vars(renderSkipped)
    /\ []<>(pc # "update")

----------------------------------------------------------------------------
\* Vocabulary of the properties.  A frame's update() has run when pc is
\* "render" or "aborted"; squeeze and intersecting are then the frame's input,
\* before is the state update() started from and effects what it did.

AfterUpdate == pc \in {"render", "aborted"}

\* Hand h's squeeze component is there and reports a change of its level.
Edge(h) == squeeze[h].available /\ squeeze[h].changed
PressEdge(h) == Edge(h) /\ squeeze[h].pressed
ReleaseEdge(h) == Edge(h) /\ ~squeeze[h].pressed

\* Hand h has a grip and mesh m intersects it in this frame.
Overlaps(h, m) ==
    /\ Controller(h) # NoSource
    /\ Grip(Controller(h)) # Undefined
    /\ <<Grip(Controller(h)), m>> \in intersecting

Registered == Range(grabbableObjects)

\* The right hand holds what its reference names; the left hand has no
\* reference, it holds what hangs on its grip.
Holding(h, m) ==
    IF h = "right" THEN rightGrabbedObject = m
    ELSE leftController # NoSource /\ meshes[m].parent = Grip(leftController)

Idle(h) == \A m \in Meshes : ~Holding(h, m)

WasIdle == before.rightGrabbedObject = Null

Untouched(m) == meshes[m] = before.meshes[m]

Count(op, m) == Cardinality({i \in DOMAIN effects : effects[i].op = op /\ effects[i].mesh = m})

\* The first mesh of the registry that intersects the right grip, by position.
FirstOverlapping ==
    LET hit == {i \in DOMAIN grabbableObjects : Overlaps("right", grabbableObjects[i])}
    IN  grabbableObjects[CHOOSE i \in hit : \A j \in hit : i <= j]

----------------------------------------------------------------------------
\* C1: with one grabbable object in the registry that intersects the right
\* grip, a frame with a squeeze press edge ends with the hand holding the
\* object and none with a release edge does; the impostor is woken exactly
\* once by the release edge that ends a hold and by no other frame.
C1_PressReleaseCycle ==
    (AfterUpdate /\ Len(grabbableObjects) = 1) =>
        LET o == grabbableObjects[1] IN
        /\ (PressEdge("right") /\ Overlaps("right", o)) => rightGrabbedObject = o
        /\ ReleaseEdge("right") => rightGrabbedObject = Null
        /\ Count("wakeUp", o) =
             (IF ReleaseEdge("right") /\ before.rightGrabbedObject = o THEN 1 ELSE 0)
        /\ (~ReleaseEdge("right") /\ before.rightGrabbedObject = o) => rightGrabbedObject = o

\* A release edge ends the hold of the single object: Idle, one wakeUp.
C1_Witness ==
    /\ pc = "render"
    /\ Len(grabbableObjects) = 1
    /\ ReleaseEdge("right")
    /\ before.rightGrabbedObject = grabbableObjects[1]
    /\ rightGrabbedObject = Null
    /\ Count("wakeUp", grabbableObjects[1]) = 1

\* C2: no mesh is held by both hands at once.
C2_MutualExclusion ==
    \A m \in Meshes : ~(Holding("left", m) /\ Holding("right", m))

\* Both hands get a press edge in one frame, both grips intersect the mesh,
\* and the frame ends with the right hand, and only it, holding the mesh.
C2_Witness ==
    /\ pc = "render"
    /\ PressEdge("left") /\ PressEdge("right")
    /\ \E m \in Registered :
         /\ Overlaps("left", m) /\ Overlaps("right", m)
         /\ WasIdle
         /\ Holding("right", m) /\ ~Holding("left", m)

\* C3: a press edge while Idle attaches the first mesh in registry order that
\* intersects the right grip, by one sleep and one setParent, and leaves every
\* other mesh as it was.
C3_SelectionOrder ==
    (AfterUpdate /\ PressEdge("right") /\ WasIdle
       /\ \E m \in Registered : Overlaps("right", m)) =>
        /\ rightGrabbedObject = FirstOverlapping
        /\ effects = <<Effect("sleep", FirstOverlapping, ""),
                       Effect("setParent", FirstOverlapping, Grip(rightController))>>
        /\ \A m \in Meshes \ {FirstOverlapping} : Untouched(m)

\* Two registered meshes intersect the grip; the first is taken, the second is not.
C3_Witness ==
    /\ pc = "render"
    /\ PressEdge("right") /\ WasIdle
    /\ Len(grabbableObjects) >= 2
    /\ Overlaps("right", grabbableObjects[1]) /\ Overlaps("right", grabbableObjects[2])
    /\ rightGrabbedObject = grabbableObjects[1]
    /\ meshes[grabbableObjects[2]].parent = NoParent
    /\ meshes[grabbableObjects[2]].physicsImpostor = "asleep"

\* C4: a press edge that finds the hand holding a mesh keeps that mesh and
\* does nothing to any mesh.
C4_NoDoubleGrab ==
    (AfterUpdate /\ PressEdge("right") /\ ~WasIdle) =>
        /\ rightGrabbedObject = before.rightGrabbedObject
        /\ effects = <<>>
        /\ meshes = before.meshes

\* A press edge while holding, with another registered mesh on the grip.
C4_Witness ==
    /\ pc = "render"
    /\ PressEdge("right") /\ ~WasIdle
    /\ rightGrabbedObject = before.rightGrabbedObject
    /\ \E m \in Registered \ {rightGrabbedObject} : Overlaps("right", m)

\* C5: a release edge that finds the hand Idle leaves it Idle and does
\* nothing to any mesh.
C5_RedundantRelease ==
    (AfterUpdate /\ ReleaseEdge("right") /\ WasIdle) =>
        /\ rightGrabbedObject = Null
        /\ effects = <<>>
        /\ meshes = before.meshes

\* A release edge while Idle, with meshes in the registry.
C5_Witness ==
    /\ pc = "render"
    /\ ReleaseEdge("right") /\ WasIdle
    /\ grabbableObjects # <<>>
    /\ rightGrabbedObject = Null

\* C6: a press edge while Idle with no registered mesh on the right grip
\* leaves the hand Idle and does nothing to any mesh.
C6_PressWithoutOverlap ==
    (AfterUpdate /\ PressEdge("right") /\ WasIdle
       /\ \A m \in Registered : ~Overlaps("right", m)) =>
        /\ rightGrabbedObject = Null
        /\ effects = <<>>
        /\ meshes = before.meshes

\* A press edge of a controller with a grip, meshes registered, none on the grip.
C6_Witness ==
    /\ pc = "render"
    /\ PressEdge("right") /\ WasIdle
    /\ Grip(rightController) # Undefined
    /\ grabbableObjects # <<>>
    /\ \A m \in Registered : ~Overlaps("right", m)
    /\ rightGrabbedObject = Null

\* C7: a held mesh is asleep and parented to the grip of the right controller.
C7_HeldIsAttached ==
    \A m \in Meshes :
        Holding("right", m) =>
            /\ meshes[m].physicsImpostor = "asleep"
            /\ meshes[m].parent = Grip(rightController)

\* C8: a release edge that finds the hand holding a mesh ends Idle with that
\* mesh unparented and awake, and every other mesh as it was.
C8_Release ==
    (AfterUpdate /\ ReleaseEdge("right") /\ ~WasIdle) =>
        LET o == before.rightGrabbedObject IN
        /\ rightGrabbedObject = Null
        /\ meshes[o].parent = NoParent
        /\ meshes[o].physicsImpostor = "awake"
        /\ \A m \in Meshes \ {o} : Untouched(m)

\* A held mesh is released while another registered mesh stays asleep.
C8_Witness ==
    /\ pc = "render"
    /\ ReleaseEdge("right") /\ ~WasIdle
    /\ meshes[before.rightGrabbedObject].parent = NoParent
    /\ meshes[before.rightGrabbedObject].physicsImpostor = "awake"
    /\ \E m \in Registered \ {before.rightGrabbedObject} :
         meshes[m].physicsImpostor = "asleep"

\* C9: a press edge of a right controller without grip is ignored: the frame
\* is not aborted, an Idle hand stays Idle and no mesh changes.
C9_NoGripIgnored ==
    (AfterUpdate /\ PressEdge("right") /\ Grip(rightController) = Undefined) =>
        /\ pc # "aborted"
        /\ rightGrabbedObject = before.rightGrabbedObject
        /\ meshes = before.meshes

\* C10: a frame whose right squeeze component reports no change leaves the
\* reference and every mesh as they were.
C10_OnlyEdges ==
    (AfterUpdate /\ ~Edge("right")) =>
        /\ rightGrabbedObject = before.rightGrabbedObject
        /\ effects = <<>>
        /\ meshes = before.meshes

\* The button is held down, the hand is Idle and a registered mesh is on the
\* grip: nothing is grabbed.
C10_Witness ==
    /\ pc = "render"
    /\ squeeze["right"].available /\ squeeze["right"].pressed /\ ~squeeze["right"].changed
    /\ WasIdle
    /\ \E m \in Registered : Overlaps("right", m)
    /\ rightGrabbedObject = Null

----------------------------------------------------------------------------
\* C11: every handler but the right squeeze handler leaves the held-object
\* reference and every mesh's parent and physics state as it found them.
C11_OnlyRightSqueezeActs ==
    AfterUpdate => actors \subseteq {"onRightSqueeze"}

\* The left squeeze gets a press edge with a registered mesh on the left grip
\* and changes nothing; in the same frame the right squeeze handler attaches.
C11_Witness ==
    /\ pc = "render"
    /\ PressEdge("left")
    /\ \E m \in Registered : Overlaps("left", m)
    /\ Len(calls) = 10
    /\ actors = {"onRightSqueeze"}

\* The order of Game.processControllerInput's calls: left hand, then right hand.
LeftHandlers == {"onLeftTrigger", "onLeftSqueeze", "onLeftThumbstick", "onLeftX", "onLeftY"}
RightHandlers == {"onRightTrigger", "onRightSqueeze", "onRightThumbstick", "onRightA", "onRightB"}

\* C13: when scene.render() is about to run, update() has run once in this
\* frame: each of the ten handlers was called exactly once, every left-hand
\* handler before every right-hand handler; outside a frame nothing has run.
C13_OncePerFrameLeftFirst ==
    /\ pc = "render" =>
         /\ \A n \in LeftHandlers \cup RightHandlers :
              Cardinality({k \in DOMAIN calls : calls[k] = n}) = 1
         /\ \A k \in DOMAIN calls : calls[k] \in LeftHandlers \cup RightHandlers
         /\ \A j, k \in DOMAIN calls :
              (calls[j] \in LeftHandlers /\ calls[k] \in RightHandlers) => j < k
    /\ pc \in {"idle", "update"} => calls = <<>>

\* A frame about to render in which the right squeeze handler attached a mesh.
C13_Witness ==
    /\ pc = "render"
    /\ Len(calls) = 10
    /\ rightGrabbedObject # Null /\ WasIdle

\* C16: for each mesh the sleep() calls and the wakeUp() calls of the right
\* squeeze handler alternate, a sleep() first: the wakeUp() calls never
\* outnumber the sleep() calls, there is one more sleep() while the mesh is
\* the held object and as many of each while it is not, and no frame makes
\* more than one of these calls.
C16_SuspendsResumesAlternate ==
    /\ \A m \in Meshes :
           /\ resumes[m] <= suspends[m]
           /\ suspends[m] - resumes[m] = IF rightGrabbedObject = m THEN 1 ELSE 0
    /\ \A m \in Meshes : Count("sleep", m) + Count("wakeUp", m) <= 1

\* A mesh is held for the second time, after one full grab and release.
C16_Witness ==
    \E m \in Meshes :
        /\ pc = "render"
        /\ rightGrabbedObject = m
        /\ Count("sleep", m) = 1
        /\ suspends[m] = 2
        /\ resumes[m] = 1

\* C12 as stated: once update has run for the first time, the contents and
\* the order of grabbableObjects never change.
C12_ImmutableOnceUpdated ==
    [][updated => grabbableObjects' = grabbableObjects]_vars

\* C12: grabbableObjects is empty until onFinish runs, also in the frames
\* that update processes before then; onFinish fills it once, and after
\* onFinish has run its contents and order never change.
C12_ImmutableOnceLoaded ==
    [][/\ ~loaded => grabbableObjects = <<>>
       /\ loaded => (loaded' /\ grabbableObjects' = grabbableObjects)
       /\ grabbableObjects' # grabbableObjects => AssetsFinish]_vars

\* Play after the load: the second registered mesh has just been grabbed.
C12_Witness ==
    /\ loaded
    /\ pc = "render"
    /\ Len(grabbableObjects) >= 2
    /\ WasIdle
    /\ rightGrabbedObject = grabbableObjects[2]

\* C14: when the right hand holds mesh m and the squeeze button is released
\* (its component reports not pressed), then eventually the hand no longer
\* holds m and m's impostor is awake.
C14_ReleaseReachesIdle ==
    \A m \in Meshes :
        (rightGrabbedObject = m /\ squeeze["right"].available /\ ~squeeze["right"].pressed)
            ~> (rightGrabbedObject # m /\ meshes[m].physicsImpostor = "awake")

\* A registered mesh hangs on some node of the scene graph.
Attached(m) == meshes[m].parent # NoParent

\* C15: a registered mesh is parented to the right controller's grip if and
\* only if it is rightGrabbedObject; at most one registered mesh is attached
\* at any time, and a registered mesh that is not held has no parent.
C15_ReferenceAgreesWithGraph ==
    /\ \A m \in Registered :
           meshes[m].parent = Grip(rightController) <=> rightGrabbedObject = m
    /\ Cardinality({m \in Registered : Attached(m)}) <= 1
    /\ \A m \in Registered : rightGrabbedObject # m => ~Attached(m)

\* C17: a controller-added event that replaces the right controller while a
\* mesh is held leaves the mesh parented to the grip of the source that is
\* the right controller afterwards.
C17_ReplacementKeepsAttachment ==
    [][(rightGrabbedObject # Null /\ rightController' # rightController)
          => meshes'[rightGrabbedObject'].parent = Grip(rightController')]_vars

\* The meshes, in load order, that satisfy P as the loader hands them over.
InLoadOrder(P(_)) == SelectSeq([i \in Meshes |-> i], P)

InPropsGroup(i) == meshes[i].parent = PropsNode
InPropsGroupNotTable(i) == meshes[i].parent = PropsNode /\ meshes[i].name # TableName

\* onFinish has just run, and it registered the meshes reg.
LoadFinishes(reg) ==
    (~loaded /\ loaded') =>
        /\ grabbableObjects' = reg
        /\ \A m \in Range(reg) :
               meshes'[m].parent = NoParent /\ meshes'[m].physicsImpostor = "asleep"

\* The hand is Idle while no squeeze edge has been processed, and a
\* registered mesh that was never released from a grab is asleep.
IdleAndAsleepAtFirst ==
    /\ ~edgeSeen' => rightGrabbedObject' = Null
    /\ \A m \in Range(grabbableObjects') :
           resumes'[m] = 0 => meshes'[m].physicsImpostor = "asleep"

\* C18 as stated: the hand is Idle before any squeeze edge is processed;
\* when the load finishes the registry is exactly the meshes whose parent is
\* Props, in load order, each unparented and asleep; a registered mesh stays
\* asleep until it is first released from a grab.
C18_InitialStateAllOfProps ==
    [][IdleAndAsleepAtFirst /\ LoadFinishes(InLoadOrder(InPropsGroup))]_vars

\* C18: as above, with the registry being exactly the meshes whose parent is
\* Props and whose name is not rpgpp_lt_table_01, in load order.
C18_InitialState ==
    [][IdleAndAsleepAtFirst /\ LoadFinishes(InLoadOrder(InPropsGroupNotTable))]_vars

\* After the load and a first grab and release, the released mesh is awake
\* and a registered mesh that was never grabbed is still asleep.
C18_Witness ==
    /\ loaded
    /\ edgeSeen
    /\ rightGrabbedObject = Null
    /\ \E m, n \in Registered :
           /\ resumes[m] = 1 /\ meshes[m].physicsImpostor = "awake"
           /\ suspends[n] = 0 /\ meshes[n].physicsImpostor = "asleep"

====
